---- MODULE Spec2Model ----
(***************************************************************************)
(* Beatrove: the filename heuristic parser of the list generator           *)
(* (generate_music_list.py) and the rename planner/applier of the fixer    *)
(* (music_file_fixer.py).                                                  *)
(*                                                                         *)
(* Strings are sequences of one-character strings, so that splitting,      *)
(* stripping, regular-expression matching and os.path functions are        *)
(* computed character by character as Python computes them.                *)
(***************************************************************************)
EXTENDS Integers, Sequences, FiniteSets, TLC

(***************************************************************************)
(* Characters and Python str helpers                                       *)
(***************************************************************************)
Digits == {"0", "1", "2", "3", "4", "5", "6", "7", "8", "9"}

UpperLetters == <<"A", "B", "C", "D", "E", "F", "G", "H", "I", "J", "K", "L", "M",
                  "N", "O", "P", "Q", "R", "S", "T", "U", "V", "W", "X", "Y", "Z">>

LowerLetters == <<"a", "b", "c", "d", "e", "f", "g", "h", "i", "j", "k", "l", "m",
                  "n", "o", "p", "q", "r", "s", "t", "u", "v", "w", "x", "y", "z">>

\* Code-point order of the characters the model uses (ASCII order).
CharOrder == <<" ", "-", ".", "/">>
             \o <<"0", "1", "2", "3", "4", "5", "6", "7", "8", "9">>
             \o UpperLetters \o <<"_">> \o LowerLetters

Range(s) == {s[i] : i \in DOMAIN s}

IsDigit(c) == c \in Digits

IsSpace(c) == c = " "

\* \w of the re module: letters, digits and the underscore.
IsWord(c) == c \in Digits \cup Range(UpperLetters) \cup Range(LowerLetters) \cup {"_"}

IndexIn(seq, c) == IF c \in Range(seq) THEN CHOOSE i \in DOMAIN seq : seq[i] = c ELSE 0

\* str.lower() on one character
LowerChar(c) == IF c \in Range(UpperLetters) THEN LowerLetters[IndexIn(UpperLetters, c)] ELSE c

\* str.lower()
Lower(s) == [i \in DOMAIN s |-> LowerChar(s[i])]

\* s[i:] (1-based i)
Drop(s, i) == SubSeq(s, i, Len(s))

\* s[:i] exclusive of index i (1-based)
Take(s, i) == SubSeq(s, 1, i - 1)

StartsWithAt(s, p, i) == /\ i + Len(p) - 1 <= Len(s)
                         /\ SubSeq(s, i, i + Len(p) - 1) = p

\* str.endswith(suffix)
EndsWith(s, p) == Len(p) <= Len(s) /\ SubSeq(s, Len(s) - Len(p) + 1, Len(s)) = p

RECURSIVE SplitRec(_, _, _, _)
SplitRec(s, sep, i, cur) ==
    IF i > Len(s) THEN <<cur>>
    ELSE IF StartsWithAt(s, sep, i)
         THEN <<cur>> \o SplitRec(s, sep, i + Len(sep), <<>>)
         ELSE SplitRec(s, sep, i + 1, Append(cur, s[i]))

\* str.split(sep) for a non-empty separator
Split(s, sep) == SplitRec(s, sep, 1, <<>>)

RECURSIVE Join(_, _)
\* sep.join(list)
Join(list, sep) ==
    IF list = <<>> THEN <<>>
    ELSE IF Len(list) = 1 THEN list[1]
    ELSE list[1] \o sep \o Join(Tail(list), sep)

RECURSIVE LStrip(_)
LStrip(s) == IF s # <<>> /\ IsSpace(Head(s)) THEN LStrip(Tail(s)) ELSE s

RECURSIVE RStrip(_)
RStrip(s) == IF s # <<>> /\ IsSpace(s[Len(s)]) THEN RStrip(Take(s, Len(s))) ELSE s

\* str.strip()
Strip(s) == RStrip(LStrip(s))

RECURSIVE CollapseRec(_, _)
CollapseRec(s, i) ==
    IF i > Len(s) THEN <<>>
    ELSE IF IsSpace(s[i])
         THEN IF i > 1 /\ IsSpace(s[i - 1]) THEN CollapseRec(s, i + 1)
              ELSE <<" ">> \o CollapseRec(s, i + 1)
         ELSE <<s[i]>> \o CollapseRec(s, i + 1)

\* re.sub(r'\s+', ' ', s)
CollapseWhitespace(s) == CollapseRec(s, 1)

\* str.isdigit()
IsDigitStr(s) == s # <<>> /\ \A i \in DOMAIN s : IsDigit(s[i])

\* Index of the last occurrence of c in s, 0 when absent (str.rfind, 1-based)
RFind(s, c) == IF c \in Range(s) THEN CHOOSE i \in DOMAIN s :
                                          s[i] = c /\ \A j \in DOMAIN s : s[j] = c => j <= i
               ELSE 0

(***************************************************************************)
(* os.path                                                                 *)
(***************************************************************************)
Slash == <<"/">>

\* os.path.splitext: the extension starts at the last dot after the last
\* slash, unless only dots precede it in the final component.
SplitExt(p) ==
    LET sepIndex == RFind(p, "/")
        dotIndex == RFind(p, ".")
    IN IF /\ dotIndex > sepIndex
          /\ \E j \in (sepIndex + 1)..(dotIndex - 1) : p[j] # "."
       THEN <<Take(p, dotIndex), Drop(p, dotIndex)>>
       ELSE <<p, <<>>>>

\* os.path.basename
Basename(p) == Drop(p, RFind(p, "/") + 1)

\* os.path.dirname
Dirname(p) ==
    LET i == RFind(p, "/")
        head == Take(p, i + 1)
    IN IF head # <<>> /\ \E j \in DOMAIN head : head[j] # "/"
       THEN Take(head, CHOOSE k \in 1..(Len(head) + 1) :
                           /\ \A j \in k..Len(head) : head[j] = "/"
                           /\ (k > 1 => head[k - 1] # "/"))
       ELSE head

\* os.path.join(a, b)
PathJoin(a, b) ==
    IF b # <<>> /\ Head(b) = "/" THEN b
    ELSE IF a = <<>> \/ a[Len(a)] = "/" THEN a \o b
    ELSE a \o Slash \o b

(***************************************************************************)
(* Regular expressions used by both tools                                  *)
(***************************************************************************)
Delim == <<" ", "-", " ">>

KeyLetters == {"A", "B"}

NoMatch == [found |-> FALSE, group |-> <<>>]

Match(g) == [found |-> TRUE, group |-> g]

DigitsAt(s, i, n) == i + n - 1 <= Len(s) /\ \A j \in i..(i + n - 1) : IsDigit(s[j])

\* \b before position i: exactly one of s[i-1], s[i] is a word character
WordBoundary(s, i) ==
    LET left == i > 1 /\ i - 1 <= Len(s) /\ IsWord(s[i - 1])
        right == i >= 1 /\ i <= Len(s) /\ IsWord(s[i])
    IN left # right

\* re.match(r'^\d{1,2}[AB]$', s)
MatchKey(s) ==
    /\ Len(s) \in {2, 3}
    /\ \A j \in 1..(Len(s) - 1) : IsDigit(s[j])
    /\ s[Len(s)] \in KeyLetters

\* re.match(r'^\d{2,3}$', s)
MatchBareNumber(s) == Len(s) \in {2, 3} /\ \A j \in DOMAIN s : IsDigit(s[j])

\* Length of the match of \b(\d{2,3})\b starting at i, 0 when none (greedy)
BpmTokenLen(s, i) ==
    IF DigitsAt(s, i, 3) /\ WordBoundary(s, i) /\ WordBoundary(s, i + 3) THEN 3
    ELSE IF DigitsAt(s, i, 2) /\ WordBoundary(s, i) /\ WordBoundary(s, i + 2) THEN 2
    ELSE 0

\* Length of the match of \b(\d{1,2}[AB])\b starting at i, 0 when none (greedy)
KeyTokenLen(s, i) ==
    IF /\ DigitsAt(s, i, 2) /\ i + 2 <= Len(s) /\ s[i + 2] \in KeyLetters
       /\ WordBoundary(s, i) /\ WordBoundary(s, i + 3) THEN 3
    ELSE IF /\ DigitsAt(s, i, 1) /\ i + 1 <= Len(s) /\ s[i + 1] \in KeyLetters
            /\ WordBoundary(s, i) /\ WordBoundary(s, i + 2) THEN 2
    ELSE 0

\* re.search(r'\b(\d{2,3})\b', name): the leftmost match
SearchBpm(name) ==
    LET hits == {i \in DOMAIN name : BpmTokenLen(name, i) > 0}
    IN IF hits = {} THEN NoMatch
       ELSE LET i == CHOOSE h \in hits : \A g \in hits : h <= g
            IN Match(SubSeq(name, i, i + BpmTokenLen(name, i) - 1))

\* re.search(r'\b(\d{1,2}[AB])\b', name): the leftmost match
SearchKey(name) ==
    LET hits == {i \in DOMAIN name : KeyTokenLen(name, i) > 0}
    IN IF hits = {} THEN NoMatch
       ELSE LET i == CHOOSE h \in hits : \A g \in hits : h <= g
            IN Match(SubSeq(name, i, i + KeyTokenLen(name, i) - 1))

\* re.search(r'\d+', s): the leftmost maximal run of digits
SearchDigits(s) ==
    LET hits == {i \in DOMAIN s : IsDigit(s[i])}
    IN IF hits = {} THEN NoMatch
       ELSE LET i == CHOOSE h \in hits : \A g \in hits : h <= g
                j == CHOOSE e \in i..Len(s) :
                         /\ \A k \in i..e : IsDigit(s[k])
                         /\ (e = Len(s) \/ ~IsDigit(s[e + 1]))
            IN Match(SubSeq(s, i, j))

\* re.sub(r'[^\d.]', '', bpm)
BpmClean(bpm) ==
    LET Keep(c) == IsDigit(c) \/ c = "."
    IN SelectSeq(bpm, Keep)

\* bpm_clean and bpm_clean.replace('.', '').isdigit()
BpmValid(bpm) ==
    LET NotDot(c) == c # "."
        bpm_clean == BpmClean(bpm)
    IN bpm_clean # <<>> /\ IsDigitStr(SelectSeq(bpm_clean, NotDot))

(***************************************************************************)
(* generate_music_list.py: parse_filename                                  *)
(***************************************************************************)
parse_filename(filename) ==
    LET se == SplitExt(filename)
        name == se[1]
        ext == se[2]
        parts == Split(name, Delim)
    IN IF Len(parts) >= 4 /\ BpmValid(Strip(parts[4]))
       THEN [artist |-> Strip(parts[1]), title |-> Strip(parts[2]),
             key |-> Strip(parts[3]), bpm |-> Strip(parts[4]),
             ext |-> Lower(ext), valid_format |-> TRUE]
       ELSE [artist |-> <<>>, title |-> name, key |-> <<>>, bpm |-> <<>>,
             ext |-> Lower(ext), valid_format |-> FALSE]

(***************************************************************************)
(* music_file_fixer.py: is_correct_format, analyze_filename_pattern,       *)
(* suggest_rename                                                          *)
(***************************************************************************)
\* is_correct_format accepting stems of exactly four segments only
is_correct_format_four_segments_only(filename) ==
    LET name == SplitExt(filename)[1]
        parts == Split(name, Delim)
        n == Len(parts)
    IN IF n # 4 THEN FALSE
       ELSE IF ~MatchKey(Strip(parts[n - 1])) THEN FALSE
       ELSE IF ~BpmValid(Strip(parts[n])) THEN FALSE
       ELSE TRUE

is_correct_format(filename) ==
    LET name == SplitExt(filename)[1]
        parts == Split(name, Delim)
        n == Len(parts)
    IN IF n < 4 THEN FALSE
       ELSE IF ~MatchKey(Strip(parts[n - 1])) THEN FALSE
       ELSE IF ~BpmValid(Strip(parts[n])) THEN FALSE
       ELSE TRUE

\* analyze_filename_pattern without the catch-all issue of the 3-segment case
analyze_filename_pattern_no_segment_count_issue(filename) ==
    LET name == SplitExt(filename)[1]
        bpm_match == SearchBpm(name)
        key_match == SearchKey(name)
        parts == Split(name, Delim)
        n == Len(parts)
        key_valid == MatchKey(Strip(parts[n - 1]))
        bpm_valid == BpmValid(Strip(parts[n]))
        issues ==
            IF n < 2 THEN <<"Missing artist-title separation">>
            ELSE IF n = 2 THEN
                IF ~bpm_match.found /\ ~key_match.found THEN <<"Missing key and BPM">>
                ELSE IF ~bpm_match.found THEN <<"Missing BPM">>
                ELSE IF ~key_match.found THEN <<"Missing key">>
                ELSE <<>>
            ELSE IF n = 3 THEN
                IF ~bpm_match.found THEN <<"Missing BPM">>
                ELSE IF ~key_match.found THEN <<"Missing key">>
                ELSE <<>>
            ELSE IF key_valid /\ bpm_valid THEN <<>>
            ELSE (IF ~key_valid THEN <<"Invalid key format in expected position">> ELSE <<>>)
                 \o (IF ~bpm_valid THEN <<"Invalid BPM format in expected position">> ELSE <<>>)
        suggestions ==
            IF n < 2 THEN <<"Add ' - ' between artist and title">>
            ELSE IF n = 2 THEN
                IF ~bpm_match.found /\ ~key_match.found THEN <<"Add ' - KEY - BPM' at the end">>
                ELSE IF ~bpm_match.found THEN <<"Add BPM after key">>
                ELSE IF ~key_match.found THEN <<"Add key before BPM">>
                ELSE <<>>
            ELSE <<>>
    IN [issues |-> issues, suggestions |-> suggestions,
        bpm_match |-> bpm_match, key_match |-> key_match]

analyze_filename_pattern(filename) ==
    LET name == SplitExt(filename)[1]
        bpm_match == SearchBpm(name)
        key_match == SearchKey(name)
        parts == Split(name, Delim)
        n == Len(parts)
        key_valid == MatchKey(Strip(parts[n - 1]))
        bpm_valid == BpmValid(Strip(parts[n]))
        issues ==
            IF n < 2 THEN <<"Missing artist-title separation">>
            ELSE IF n = 2 THEN
                IF ~bpm_match.found /\ ~key_match.found THEN <<"Missing key and BPM">>
                ELSE IF ~bpm_match.found THEN <<"Missing BPM">>
                ELSE IF ~key_match.found THEN <<"Missing key">>
                ELSE <<>>
            ELSE IF n = 3 THEN
                IF ~bpm_match.found THEN <<"Missing BPM">>
                ELSE IF ~key_match.found THEN <<"Missing key">>
                ELSE <<"Has key and BPM but wrong number of segments">>
            ELSE IF key_valid /\ bpm_valid THEN <<>>
            ELSE (IF ~key_valid THEN <<"Invalid key format in expected position">> ELSE <<>>)
                 \o (IF ~bpm_valid THEN <<"Invalid BPM format in expected position">> ELSE <<>>)
        suggestions ==
            IF n < 2 THEN <<"Add ' - ' between artist and title">>
            ELSE IF n = 2 THEN
                IF ~bpm_match.found /\ ~key_match.found THEN <<"Add ' - KEY - BPM' at the end">>
                ELSE IF ~bpm_match.found THEN <<"Add BPM after key">>
                ELSE IF ~key_match.found THEN <<"Add key before BPM">>
                ELSE <<>>
            ELSE <<>>
    IN [issues |-> issues, suggestions |-> suggestions,
        bpm_match |-> bpm_match, key_match |-> key_match]

\* Tag metadata of a file as TinyTag.get returns it; NoTag stands for a
\* failed lookup or absent artist/title fields.
NoTag == [artist |-> <<>>, title |-> <<>>]

UnknownArtist == <<"U", "n", "k", "n", "o", "w", "n", " ", "A", "r", "t", "i", "s", "t">>

UnknownTitle == <<"U", "n", "k", "n", "o", "w", "n", " ", "T", "i", "t", "l", "e">>

\* The parts of parts[1:] that are neither key-shaped nor a bare 2-3 digit number
RECURSIVE clean_title_parts(_)
clean_title_parts(title_parts) ==
    IF title_parts = <<>> THEN <<>>
    ELSE LET part == Strip(Head(title_parts))
         IN (IF ~(MatchKey(part) \/ MatchBareNumber(part)) THEN <<part>> ELSE <<>>)
            \o clean_title_parts(Tail(title_parts))

\* Artist, title, key and BPM chosen by suggest_rename before whitespace cleanup
suggest_fields(name, parts, an, tag, default_key, default_bpm) ==
    LET n == Len(parts)
        found_bpm == IF an.bpm_match.found THEN an.bpm_match.group ELSE default_bpm
        found_key == IF an.key_match.found THEN an.key_match.group ELSE default_key
    IN IF n >= 4 THEN
           LET potential_key == Strip(parts[n - 1])
               potential_bpm == Strip(parts[n])
           IN IF MatchKey(potential_key) /\ SearchDigits(potential_bpm).found
              THEN LET title_parts == SubSeq(parts, 2, n - 2)
                   IN [artist |-> Strip(parts[1]),
                       title |-> IF title_parts # <<>> THEN Join(title_parts, Delim)
                                 ELSE UnknownTitle,
                       key |-> potential_key,
                       bpm |-> SearchDigits(potential_bpm).group]
              ELSE [artist |-> Strip(parts[1]),
                    title |-> Strip(Join(Tail(parts), Delim)),
                    key |-> found_key, bpm |-> found_bpm]
       ELSE IF n >= 2 THEN
           LET clean == clean_title_parts(Tail(parts))
           IN [artist |-> Strip(parts[1]),
               title |-> IF clean # <<>> THEN Join(clean, Delim) ELSE parts[2],
               key |-> found_key, bpm |-> found_bpm]
       ELSE IF tag.artist # <<>> /\ tag.title # <<>>
            THEN [artist |-> tag.artist, title |-> tag.title,
                  key |-> found_key, bpm |-> found_bpm]
            ELSE [artist |-> UnknownArtist, title |-> name,
                  key |-> found_key, bpm |-> found_bpm]

\* build_new_path with the extension lower-cased, as parse_filename does
build_new_path_lower_ext(directory, ext, an, f) ==
    [new_path |-> PathJoin(directory,
                           Strip(CollapseWhitespace(f.artist)) \o Delim
                           \o Strip(CollapseWhitespace(f.title)) \o Delim
                           \o f.key \o Delim \o f.bpm \o Lower(ext)),
     issues |-> an.issues, suggestions |-> an.suggestions]

\* Lines 155-163: whitespace cleanup of artist and title and the new path
build_new_path(directory, ext, an, f) ==
    [new_path |-> PathJoin(directory,
                           Strip(CollapseWhitespace(f.artist)) \o Delim
                           \o Strip(CollapseWhitespace(f.title)) \o Delim
                           \o f.key \o Delim \o f.bpm \o ext),
     issues |-> an.issues, suggestions |-> an.suggestions]

\* suggest_rename once directory, (name, ext) and the analysis are computed
suggest_from(directory, se, an, default_key, default_bpm, tag) ==
    build_new_path(directory, se[2], an,
                   suggest_fields(se[1], Split(se[1], Delim), an, tag,
                                  default_key, default_bpm))

suggest_rename(filepath, default_key, default_bpm, tag) ==
    suggest_from(Dirname(filepath), SplitExt(Basename(filepath)),
                 analyze_filename_pattern(Basename(filepath)),
                 default_key, default_bpm, tag)

(***************************************************************************)
(* Bounds and input pools                                                  *)
(***************************************************************************)
\* Largest number of " - "-delimited segments of an input stem
MaxSegs == 5

\* Segments an input stem is built from: a plain word, a key, a BPM, an empty
\* segment, a word with a whitespace run, a hyphenated word holding a key and
\* a BPM token, a padded single digit.
SegPool == {<<"a">>, <<"8", "A">>, <<"1", "2">>, <<>>, <<"a", " ", " ", "b">>,
            <<"a", "-", "8", "A", "-", "1", "2">>, <<" ", "1">>}

\* Leading segments (artist, first title segments) of stems of 4 or more segments
LeadPool == {<<"a">>, <<"a", " ", " ", "b">>}

ExtPool == {<<".", "m", "p", "3">>, <<".", "M", "p", "3">>, <<>>}

\* default_key / default_bpm pairs: the CLI defaults and a non-empty pair
\* that is neither a Camelot key nor a number
DefaultPool == {<<<<"8", "A">>, <<"1", "2", "0">>>>, <<<<"C", "m">>, <<"x">>>>}

TagPool == {NoTag, [artist |-> <<"z">>, title |-> <<"y">>]}

Seqs(S, n) == [1..n -> S]

InputSegs ==
    UNION {Seqs(SegPool, n) : n \in 1..3}
    \cup UNION {{lead \o last : lead \in Seqs(LeadPool, n - 3), last \in Seqs(SegPool, 3)}
                : n \in 4..MaxSegs}

Dir == <<"d">>

(***************************************************************************)
(* State                                                                   *)
(***************************************************************************)
VARIABLES
    op,         \* parser functions: the function applied last ("input" before any)
    segs,       \* the segments the input stem was built from
    ext,        \* the extension the input filename was built with
    filename,   \* the input filename
    parsed,     \* result of parse_filename
    correct,    \* result of is_correct_format
    analysis,   \* result of analyze_filename_pattern
    suggested,  \* result of suggest_rename with its default_key/default_bpm and tag
    recheck     \* is_correct_format of the suggested name

parserVars == <<op, segs, ext, filename, parsed, correct, analysis, suggested, recheck>>

VARIABLES
    fs,            \* the directory: file path -> file content
    fs0,           \* the directory as it was when the run started
    isdir,         \* os.path.isdir(args.directory)
    args,          \* the parsed command line of the fixer
    pc,            \* position of main: "start", "dry_run", "apply", "exit"
    renames,       \* the rename plan returned by process_directory
    idx,           \* apply_renames: index of the next plan entry
    confirm_each,  \* apply_renames: whether entries are still confirmed one by one
    applied,       \* apply_renames: counter of renames
    skipped,       \* apply_renames: counter of skipped entries
    log,           \* what apply_renames did with each entry so far
    result         \* what apply_renames returned

dirVars == <<fs, isdir>>

fixerVars == <<fs0, args, pc, renames, idx, confirm_each, applied, skipped, log, result>>

VARIABLES
    gargs,         \* the parsed command line of the list generator
    gpc,           \* position of the generator: "start", "scan", "exit"
    walk,          \* generate_list: the files os.walk has still to yield
    tracks,        \* generate_list: the track records built so far
    skipped_files, \* generate_list: the warnings about non-standard names
    output         \* the written track list

genVars == <<gargs, gpc, walk, tracks, skipped_files, output>>



NoParsed == [artist |-> <<>>, title |-> <<>>, key |-> <<>>, bpm |-> <<>>,
             ext |-> <<>>, valid_format |-> FALSE]

NoAnalysis == [issues |-> <<>>, suggestions |-> <<>>, bpm_match |-> NoMatch,
               key_match |-> NoMatch]

NoSuggested == [new_path |-> <<>>, issues |-> <<>>, suggestions |-> <<>>,
                default_key |-> <<>>, default_bpm |-> <<>>, tag |-> NoTag]

\* The result r of suggest_rename together with the arguments of the call
WithInputs(r, default_key, default_bpm, tag) ==
    [new_path |-> r.new_path, issues |-> r.issues, suggestions |-> r.suggestions,
     default_key |-> default_key, default_bpm |-> default_bpm, tag |-> tag]

ParserInit ==
    /\ op = "input"
    /\ segs \in InputSegs
    /\ ext \in ExtPool
    /\ filename = Join(segs, Delim) \o ext
    /\ parsed = NoParsed
    /\ correct = FALSE
    /\ analysis = NoAnalysis
    /\ suggested = NoSuggested
    /\ recheck = FALSE

ParseFilename ==
    /\ op = "input"
    /\ op' = "parse_filename"
    /\ parsed' = parse_filename(filename)
    /\ UNCHANGED <<segs, ext, filename, correct, analysis, suggested, recheck>>
    /\ UNCHANGED <<dirVars, fixerVars, genVars>>

IsCorrectFormat ==
    /\ op = "input"
    /\ op' = "is_correct_format"
    /\ correct' = is_correct_format(filename)
    /\ UNCHANGED <<segs, ext, filename, parsed, analysis, suggested, recheck>>
    /\ UNCHANGED <<dirVars, fixerVars, genVars>>

AnalyzeFilenamePattern ==
    /\ op = "input"
    /\ op' = "analyze_filename_pattern"
    /\ analysis' = analyze_filename_pattern(filename)
    /\ UNCHANGED <<segs, ext, filename, parsed, correct, suggested, recheck>>
    /\ UNCHANGED <<dirVars, fixerVars, genVars>>

SuggestRename ==
    /\ op = "input"
    /\ op' = "suggest_rename"
    /\ \E d \in DefaultPool, tag \in TagPool :
         suggested' = WithInputs(suggest_rename(PathJoin(Dir, filename), d[1], d[2], tag),
                                 d[1], d[2], tag)
    /\ UNCHANGED <<segs, ext, filename, parsed, correct, analysis, recheck>>
    /\ UNCHANGED <<dirVars, fixerVars, genVars>>

\* A later scan of process_directory sees the renamed file under its new name
RescanSuggestion ==
    /\ op = "suggest_rename"
    /\ op' = "rescan"
    /\ recheck' = is_correct_format(Basename(suggested.new_path))
    /\ UNCHANGED <<segs, ext, filename, parsed, correct, analysis, suggested>>
    /\ UNCHANGED <<dirVars, fixerVars, genVars>>


(***************************************************************************)
(* music_file_fixer.py: process_directory, apply_renames, main              *)
(***************************************************************************)
\* Largest number of files in the scanned directory
MaxFiles == 3

AudioExts == {<<".", "m", "p", "3">>, <<".", "f", "l", "a", "c">>, <<".", "w", "a", "v">>,
              <<".", "a", "i", "f", "f">>, <<".", "a", "a", "c">>}

\* filename.lower().endswith(('.mp3', '.flac', '.wav', '.aiff', '.aac'))
IsAudioFile(name) == \E e \in AudioExts : EndsWith(Lower(name), e)

\* Names of the files a scanned directory may hold; a file's content is its
\* index in this list.
FilePool == <<
    <<"a", " ", "-", " ", "b", ".", "m", "p", "3">>,
    <<"a", " ", " ", "-", " ", "b", ".", "m", "p", "3">>,
    <<"a", " ", "-", " ", "b", " ", "-", " ", "8", "A", " ", "-", " ", "1", "2", "0",
      ".", "m", "p", "3">>,
    <<"x", ".", "M", "P", "3">>,
    <<"n", ".", "t", "x", "t">> >>

\* What TinyTag.get reads from a file with the given content
TagOfContent(c) == IF c = 4 THEN [artist |-> <<"z">>, title |-> <<"y">>] ELSE NoTag

\* Raw answers typed at the prompt of apply_renames
Responses == {<<"y">>, <<"Y">>, <<"a">>, <<"A">>, <<"n">>, <<>>}

Directories ==
    {[p \in {PathJoin(Dir, FilePool[i]) : i \in S} |->
         CHOOSE i \in S : PathJoin(Dir, FilePool[i]) = p]
     : S \in {T \in SUBSET DOMAIN FilePool : Cardinality(T) \in 1..MaxFiles}}

\* The orders in which os.walk may list the files of the directory
WalkOrders(files) ==
    {o \in [1..Cardinality(files) -> files] : \A i, j \in DOMAIN o : o[i] = o[j] => i = j}

\* argparse: --dry-run is a store_true flag whose default is already True
ParseArgs(dry_run_flag, apply_flag, auto_yes_flag, d) ==
    [dry_run |-> TRUE, apply |-> apply_flag, auto_yes |-> auto_yes_flag,
     default_key |-> d[1], default_bpm |-> d[2]]

\* One entry of the plan (lines 184-191)
plan_entry(filepath, r) ==
    [old_path |-> filepath, new_path |-> r.new_path,
     old_name |-> Basename(filepath), new_name |-> Basename(r.new_path),
     issues |-> r.issues, suggestions |-> r.suggestions]

RECURSIVE process_files(_, _, _, _)
\* The loop of process_directory over the walked files
process_files(files, order, default_key, default_bpm) ==
    IF order = <<>> THEN <<>>
    ELSE (IF IsAudioFile(Basename(Head(order))) /\ ~is_correct_format(Basename(Head(order)))
          THEN <<plan_entry(Head(order),
                            suggest_rename(Head(order), default_key, default_bpm,
                                           TagOfContent(files[Head(order)])))>>
          ELSE <<>>)
         \o process_files(files, Tail(order), default_key, default_bpm)

process_directory(files, order, default_key, default_bpm) ==
    process_files(files, order, default_key, default_bpm)

\* process_directory over a directory whose only file is the input: the plan
\* it returns is kept in renames
ProcessDirectory ==
    /\ op = "input"
    /\ op' = "process_directory"
    /\ \E d \in DefaultPool :
         renames' = process_directory([p \in {PathJoin(Dir, filename)} |-> 1],
                                      <<PathJoin(Dir, filename)>>, d[1], d[2])
    /\ UNCHANGED <<segs, ext, filename, parsed, correct, analysis, suggested, recheck>>
    /\ UNCHANGED <<fs0, args, pc, idx, confirm_each, applied, skipped, log, result>>
    /\ UNCHANGED <<dirVars, genVars>>

ParserNext ==
    \/ ParseFilename
    \/ IsCorrectFormat
    \/ AnalyzeFilenamePattern
    \/ SuggestRename
    \/ RescanSuggestion
    \/ ProcessDirectory

\* os.rename(old_path, new_path) when it succeeds: POSIX replaces an existing target
os_rename(files, old_path, new_path) ==
    [p \in (DOMAIN files \ {old_path}) \cup {new_path} |->
        IF p = new_path THEN files[old_path] ELSE files[p]]

FixerInit ==
    /\ fs \in Directories
    /\ fs0 = fs
    /\ isdir \in BOOLEAN
    /\ \E dry_run_flag, apply_flag, auto_yes_flag \in BOOLEAN, d \in DefaultPool :
         args = ParseArgs(dry_run_flag, apply_flag, auto_yes_flag, d)
    /\ pc = "start"
    /\ renames = <<>>
    /\ idx = 1
    /\ confirm_each = TRUE
    /\ applied = 0
    /\ skipped = 0
    /\ log = <<>>
    /\ result = <<>>

\* main, lines 254-256: the directory does not exist
MainNotDir ==
    /\ pc = "start"
    /\ ~isdir
    /\ pc' = "exit"
    /\ UNCHANGED <<fs, fs0, isdir, args, renames, idx, confirm_each, applied, skipped,
                   log, result>>
    /\ UNCHANGED <<parserVars, genVars>>

\* after_scan with the test of the dry-run branch inverted
after_scan_inverted(plan, a) ==
    IF plan = <<>> THEN "exit"
    ELSE IF a.dry_run /\ a.apply THEN "dry_run"
    ELSE "apply"

\* The branch main takes once the plan is known (lines 272-292)
after_scan(plan, a) ==
    IF plan = <<>> THEN "exit"
    ELSE IF a.dry_run /\ ~a.apply THEN "dry_run"
    ELSE IF a.apply THEN "apply"
    ELSE "exit"

\* main, lines 258-292: scan the directory and choose dry run or apply
MainScan ==
    /\ pc = "start"
    /\ isdir
    /\ \E order \in WalkOrders(DOMAIN fs) :
         renames' = process_directory(fs, order, args.default_key, args.default_bpm)
    /\ pc' = after_scan(renames', args)
    /\ idx' = 1
    /\ confirm_each' = ~args.auto_yes
    /\ UNCHANGED <<fs, fs0, isdir, args, applied, skipped, log, result>>
    /\ UNCHANGED <<parserVars, genVars>>

\* main, lines 278-288: the dry run only prints the plan
MainDryRun ==
    /\ pc = "dry_run"
    /\ pc' = "exit"
    /\ UNCHANGED <<fs, fs0, isdir, args, renames, idx, confirm_each, applied, skipped,
                   log, result>>
    /\ UNCHANGED <<parserVars, genVars>>

\* What one iteration of the loop of apply_renames does with entry
\* `rename`, given the lowered answer (when prompted) and whether os.rename raises
apply_outcome(files, rename, prompted, response, raises) ==
    IF prompted /\ response # <<"a">> /\ response # <<"y">> THEN "rejected"
    ELSE IF rename.new_path \in DOMAIN files THEN "collision"
    ELSE IF raises \/ rename.old_path \notin DOMAIN files THEN "error"
    ELSE "renamed"

\* next_confirm_each when the answer 'a' is treated like 'y'
next_confirm_each_no_switch(confirm, response) == confirm

\* Lines 213-214: the answer 'a' ends the confirmations
next_confirm_each(confirm, response) == confirm /\ response # <<"a">>

\* Line 226: the directory after the iteration
next_files(files, rename, outcome) ==
    IF outcome = "renamed" THEN os_rename(files, rename.old_path, rename.new_path)
    ELSE files

\* Line 228: applied += 1
next_applied(count, outcome) == IF outcome = "renamed" THEN count + 1 ELSE count

\* next_skipped without the skipped += 1 of the except branch (line 232)
next_skipped_error_uncounted(count, outcome) ==
    IF outcome \in {"renamed", "error"} THEN count ELSE count + 1

\* Lines 216, 223, 232: skipped += 1
next_skipped(count, outcome) == IF outcome = "renamed" THEN count ELSE count + 1

\* response = input(...).lower() when the entry is confirmed
read_response(confirm, raw) == IF confirm THEN Lower(raw) ELSE <<>>

\* apply_renames, lines 203-232: one iteration of the loop
ApplyRename ==
    /\ pc = "apply"
    /\ idx <= Len(renames)
    /\ \E raw \in Responses, raises \in BOOLEAN :
         /\ confirm_each' = next_confirm_each(confirm_each, read_response(confirm_each, raw))
         /\ log' = Append(log,
                [entry |-> idx, prompted |-> confirm_each,
                 response |-> read_response(confirm_each, raw),
                 outcome |-> apply_outcome(fs, renames[idx], confirm_each,
                                           read_response(confirm_each, raw), raises)])
         /\ fs' = next_files(fs, renames[idx], log'[idx].outcome)
         /\ applied' = next_applied(applied, log'[idx].outcome)
         /\ skipped' = next_skipped(skipped, log'[idx].outcome)
    /\ idx' = idx + 1
    /\ UNCHANGED <<fs0, isdir, args, pc, renames, result>>
    /\ UNCHANGED <<parserVars, genVars>>

\* apply_renames, line 234, and main, line 293
ApplyReturn ==
    /\ pc = "apply"
    /\ idx > Len(renames)
    /\ result' = <<applied, skipped>>
    /\ pc' = "exit"
    /\ UNCHANGED <<fs, fs0, isdir, args, renames, idx, confirm_each, applied, skipped, log>>
    /\ UNCHANGED <<parserVars, genVars>>

FixerNext ==
    \/ MainNotDir
    \/ MainScan
    \/ MainDryRun
    \/ ApplyRename
    \/ ApplyReturn

(***************************************************************************)
(* generate_music_list.py: get_metadata_from_tags, generate_list, main     *)
(***************************************************************************)
\* Artist and title of get_metadata_from_tags; `raises` is TinyTag.get failing
get_metadata_from_tags(filepath, parsed_info, tag, raises) ==
    IF raises
    THEN [artist |-> IF parsed_info.artist # <<>> THEN parsed_info.artist ELSE UnknownArtist,
          title |-> parsed_info.title]
    ELSE [artist |-> IF parsed_info.artist # <<>> THEN parsed_info.artist
                     ELSE IF tag.artist # <<>> THEN tag.artist ELSE UnknownArtist,
          title |-> IF parsed_info.title # <<>> THEN parsed_info.title
                    ELSE IF tag.title # <<>> THEN tag.title
                    ELSE SplitExt(Basename(filepath))[1]]

\* The track record of lines 350-364 (fields read from tags other than
\* artist and title are not part of the model)
track_data(filepath, parsed_info, meta) ==
    [filename |-> meta.artist \o Delim \o meta.title \o Delim \o parsed_info.key
                  \o Delim \o parsed_info.bpm \o parsed_info.ext,
     artist |-> meta.artist, title |-> meta.title,
     key |-> parsed_info.key, bpm |-> parsed_info.bpm,
     extension |-> parsed_info.ext, path |-> filepath]

RECURSIVE StrLess(_, _)
\* a < b on str: lexicographic by code point
StrLess(a, b) ==
    IF b = <<>> THEN FALSE
    ELSE IF a = <<>> THEN TRUE
    ELSE IF Head(a) = Head(b) THEN StrLess(Tail(a), Tail(b))
    ELSE IndexIn(CharOrder, Head(a)) < IndexIn(CharOrder, Head(b))

\* (x.artist.lower(), x.title.lower()) < (y.artist.lower(), y.title.lower())
SortKeyLess(x, y) ==
    \/ StrLess(Lower(x.artist), Lower(y.artist))
    \/ /\ Lower(x.artist) = Lower(y.artist)
       /\ StrLess(Lower(x.title), Lower(y.title))

RECURSIVE InsertSorted(_, _)
InsertSorted(sorted, x) ==
    IF sorted = <<>> THEN <<x>>
    ELSE IF SortKeyLess(x, Head(sorted)) THEN <<x>> \o sorted
    ELSE <<Head(sorted)>> \o InsertSorted(Tail(sorted), x)

RECURSIVE SortRec(_, _)
SortRec(list, acc) ==
    IF list = <<>> THEN acc ELSE SortRec(Tail(list), InsertSorted(acc, Head(list)))

\* tracks.sort(key=...) : a stable sort
SortTracks(list) == SortRec(list, <<>>)

\* argparse of the generator's main; --validate is parsed at line 432
ParseGenArgs(validate_flag, csv_flag) == [validate |-> validate_flag, csv |-> csv_flag]

GenInit ==
    /\ fs \in Directories
    /\ isdir \in BOOLEAN
    /\ \E validate_flag, csv_flag \in BOOLEAN : gargs = ParseGenArgs(validate_flag, csv_flag)
    /\ gpc = "start"
    /\ walk = <<>>
    /\ tracks = <<>>
    /\ skipped_files = <<>>
    /\ output = <<>>

\* main, lines 441-443
GenNotDir ==
    /\ gpc = "start"
    /\ ~isdir
    /\ gpc' = "exit"
    /\ UNCHANGED <<dirVars, gargs, walk, tracks, skipped_files, output>>
    /\ UNCHANGED <<parserVars, fixerVars>>

\* main, line 451, and generate_list, lines 323-326: the walk starts
GenStart ==
    /\ gpc = "start"
    /\ isdir
    /\ walk' \in WalkOrders(DOMAIN fs)
    /\ gpc' = "scan"
    /\ UNCHANGED <<dirVars, gargs, tracks, skipped_files, output>>
    /\ UNCHANGED <<parserVars, fixerVars>>

\* generate_list, lines 327-366: one file of the walk
GenFile ==
    /\ gpc = "scan"
    /\ walk # <<>>
    /\ walk' = Tail(walk)
    /\ IF IsAudioFile(Basename(Head(walk)))
       THEN /\ \E raises \in BOOLEAN :
                 tracks' = Append(tracks,
                     track_data(Head(walk), parse_filename(Basename(Head(walk))),
                         get_metadata_from_tags(Head(walk),
                             parse_filename(Basename(Head(walk))),
                             TagOfContent(fs[Head(walk)]), raises)))
            /\ skipped_files' =
                 IF ~parse_filename(Basename(Head(walk))).valid_format
                 THEN Append(skipped_files, Basename(Head(walk)))
                 ELSE skipped_files
       ELSE UNCHANGED <<tracks, skipped_files>>
    /\ UNCHANGED <<dirVars, gargs, gpc, output>>
    /\ UNCHANGED <<parserVars, fixerVars>>

\* generate_list, lines 368-375: sort the records and write them
GenWrite ==
    /\ gpc = "scan"
    /\ walk = <<>>
    /\ tracks' = SortTracks(tracks)
    /\ output' = <<[format |-> IF gargs.csv THEN "csv" ELSE "text", rows |-> tracks']>>
    /\ gpc' = "exit"
    /\ UNCHANGED <<dirVars, gargs, walk, skipped_files>>
    /\ UNCHANGED <<parserVars, fixerVars>>

GenNext ==
    \/ GenNotDir
    \/ GenStart
    \/ GenFile
    \/ GenWrite

(***************************************************************************)
(* Specifications                                                          *)
(***************************************************************************)
vars == <<parserVars, dirVars, fixerVars, genVars>>

\* No directory is scanned while the parser functions are exercised
DirIdle ==
    /\ fs = <<>>
    /\ isdir = FALSE

\* The fixer at rest
FixerIdle ==
    /\ fs0 = <<>>
    /\ args = ParseArgs(FALSE, FALSE, FALSE, <<<<>>, <<>>>>)
    /\ pc = "idle"
    /\ renames = <<>>
    /\ idx = 1
    /\ confirm_each = TRUE
    /\ applied = 0
    /\ skipped = 0
    /\ log = <<>>
    /\ result = <<>>

\* The list generator at rest
GenIdle ==
    /\ gargs = ParseGenArgs(FALSE, FALSE)
    /\ gpc = "idle"
    /\ walk = <<>>
    /\ tracks = <<>>
    /\ skipped_files = <<>>
    /\ output = <<>>

\* The parser functions at rest
ParserIdle ==
    /\ op = "idle"
    /\ segs = <<>>
    /\ ext = <<>>
    /\ filename = <<>>
    /\ parsed = NoParsed
    /\ correct = FALSE
    /\ analysis = NoAnalysis
    /\ suggested = NoSuggested
    /\ recheck = FALSE

\* The filename functions applied to every input of the pools
Init == ParserInit /\ DirIdle /\ FixerIdle /\ GenIdle

Spec == Init /\ [][ParserNext]_vars

\* One run of the fixer's main
InitFixer == FixerInit /\ ParserIdle /\ GenIdle

SpecFixer == InitFixer /\ [][FixerNext]_vars

\* One run of the list generator's main
InitGen == GenInit /\ ParserIdle /\ FixerIdle

SpecGen == InitGen /\ [][GenNext]_vars

(***************************************************************************)
(* Properties of the filename functions (checked under Spec)               *)
(***************************************************************************)
\* The stem of the input: the filename without its final extension
Stem == SplitExt(filename)[1]

\* The number of segments of the input
NSegs == Len(segs)

\* The input has the form "A - T - K - B.ext": at least four segments, the
\* second-to-last a key, the last a number, and an extension
HasCanonicalForm ==
    /\ NSegs >= 4
    /\ ext # <<>>
    /\ MatchKey(segs[NSegs - 1])
    /\ IsDigitStr(segs[NSegs])

\* C1: for every filename "A - T - K - B.ext" with K a key and B numeric
\* (T possibly holding the delimiter), parse_filename returns valid_format =
\* TRUE with artist A, title T (the segments between the artist and the last
\* two, rejoined with the delimiter), key K and bpm B, each trimmed.
C1_ParseCanonicalName ==
    (op = "parse_filename" /\ HasCanonicalForm) =>
        /\ parsed.valid_format
        /\ parsed.artist = Strip(segs[1])
        /\ parsed.title = Strip(Join(SubSeq(segs, 2, NSegs - 2), Delim))
        /\ parsed.key = Strip(segs[NSegs - 1])
        /\ parsed.bpm = Strip(segs[NSegs])

\* C2: the record parse_filename returns satisfies the ParsedName invariant:
\* valid_format implies that key matches ^\d{1,2}[AB]$ and bpm is numeric
\* after cleaning; ~valid_format implies artist, key and bpm empty and title
\* equal to the whole stem.
C2_ParsedNameInvariant ==
    op = "parse_filename" =>
        /\ parsed.valid_format => (MatchKey(parsed.key) /\ BpmValid(parsed.bpm))
        /\ ~parsed.valid_format =>
              /\ parsed.artist = <<>>
              /\ parsed.key = <<>>
              /\ parsed.bpm = <<>>
              /\ parsed.title = Stem

\* C3: for every input path and every non-empty default_key and default_bpm,
\* is_correct_format accepts the basename of the path suggest_rename returns.
C3_SuggestionIsWellFormed ==
    (/\ op = "rescan"
     /\ suggested.default_key # <<>>
     /\ suggested.default_bpm # <<>>) => recheck

\* The 2-segment inputs in which the whole-string search finds no key token
\* and no BPM token
TwoSegmentsNoTokens ==
    /\ NSegs = 2
    /\ ~SearchKey(Join(segs, Delim)).found
    /\ ~SearchBpm(Join(segs, Delim)).found

\* C10: for a stem of exactly 2 segments in which neither a key token nor a
\* BPM token is found, suggest_rename returns the name
\* "{artist} - {title} - {default_key} - {default_bpm}{ext}", artist and title
\* being the two segments with whitespace runs collapsed and ends trimmed, and
\* ext the original extension unchanged.
C10_TwoSegmentSuggestion ==
    (op = "suggest_rename" /\ TwoSegmentsNoTokens) =>
        Basename(suggested.new_path) =
            Strip(CollapseWhitespace(segs[1])) \o Delim
            \o Strip(CollapseWhitespace(segs[2])) \o Delim
            \o suggested.default_key \o Delim \o suggested.default_bpm \o ext

\* C10 happens: a 2-segment name without tokens, with a whitespace run in the
\* artist and capitals in the extension, got the defaults appended.
C10_Witness ==
    /\ op = "suggest_rename"
    /\ TwoSegmentsNoTokens
    /\ segs[1] = <<"a", " ", " ", "b">>
    /\ segs[2] = <<"a">>
    /\ ext = <<".", "M", "p", "3">>
    /\ suggested.default_key = <<"8", "A">>
    /\ Basename(suggested.new_path) =
         <<"a", " ", "b", " ", "-", " ", "a", " ", "-", " ", "8", "A", " ", "-", " ",
           "1", "2", "0", ".", "M", "p", "3">>

(***************************************************************************)
(* Properties of the fixer (checked under SpecFixer)                       *)
(***************************************************************************)
Attempted == {"renamed", "collision", "error"}

Accepting == {<<"y">>, <<"a">>}

CountOutcome(o) == Cardinality({i \in DOMAIN log : log[i].outcome = o})

\* The loop of apply_renames is at an entry whose destination exists
AtExistingDestination ==
    /\ pc = "apply"
    /\ idx <= Len(renames)
    /\ renames[idx].new_path \in DOMAIN fs

\* No path that exists keeps its name with another content, and no content
\* disappears from the directory
NothingOverwritten ==
    /\ \A p \in DOMAIN fs \cap DOMAIN fs' : fs'[p] = fs[p]
    /\ \A p \in DOMAIN fs : \E q \in DOMAIN fs' : fs'[q] = fs[p]

\* C4 as stated: whenever the destination of the entry being processed exists,
\* no rename is performed, the directory is unchanged and a collision is
\* reported, for every sequence of answers.
C4_CollisionAlwaysReported ==
    [][AtExistingDestination =>
          /\ fs' = fs
          /\ applied' = applied
          /\ log'[idx].outcome = "collision"]_vars

\* The part of C4 that the code keeps: whenever the destination of the entry
\* being processed exists, no rename is performed and the directory is
\* unchanged; the collision is reported exactly when the entry was not
\* rejected at the prompt, which line 212 puts before the existence test of
\* line 221; and no step of the run overwrites a file.
C4_CollisionSafety ==
    [][/\ NothingOverwritten
       /\ AtExistingDestination =>
             /\ fs' = fs
             /\ applied' = applied
             /\ log'[idx].outcome \in {"collision", "rejected"}
             /\ (log'[idx].outcome = "rejected") <=>
                   (log'[idx].prompted /\ log'[idx].response \notin Accepting)]_vars

\* A collision happens: an entry collided with a destination that an earlier rename of
\* the same batch created, and its source file is still in place.
C4_Witness ==
    \E i, j \in DOMAIN log :
        /\ i < j
        /\ log[i].outcome = "renamed"
        /\ log[j].outcome = "collision"
        /\ renames[i].new_path = renames[j].new_path
        /\ renames[j].new_path \notin DOMAIN fs0
        /\ renames[j].old_path \in DOMAIN fs
        /\ fs[renames[j].new_path] = fs0[renames[i].old_path]

\* C5: the entries are processed in listed order, a failing rename is counted
\* as skipped and does not end the loop, every entry has one outcome, and on
\* return applied + skipped is the number of plan entries with applied the
\* number of renames performed.
C5_EveryEntryTerminal ==
    /\ \A i \in DOMAIN log : log[i].entry = i
    /\ Len(log) = idx - 1
    /\ applied + skipped = Len(log)
    /\ applied = CountOutcome("renamed")
    /\ applied = Cardinality({i \in DOMAIN log :
                                 /\ renames[i].old_path \notin DOMAIN fs
                                 /\ renames[i].new_path \in DOMAIN fs
                                 /\ fs[renames[i].new_path] = fs0[renames[i].old_path]})
    /\ result # <<>> =>
          /\ result = <<applied, skipped>>
          /\ Len(log) = Len(renames)
          /\ result[1] + result[2] = Len(renames)

\* C5 happens: apply_renames returned after a rename failed on one entry and
\* a later entry was renamed.
C5_Witness ==
    /\ result # <<>>
    /\ \E i, j \in DOMAIN log :
          /\ i < j
          /\ log[i].outcome = "error"
          /\ log[j].outcome = "renamed"

\* C6: the answer 'y' attempts the current entry and the next entry is
\* prompted; 'a' attempts the current entry and no later entry is prompted,
\* every later entry being attempted; any other answer leaves the entry's
\* file untouched and the next entry is prompted; with confirm_each = FALSE
\* at the start no entry is prompted.
C6_InteractiveConfirmation ==
    \A i \in DOMAIN log :
        /\ i = 1 => (log[i].prompted <=> ~args.auto_yes)
        /\ i > 1 => (log[i].prompted <=>
                        (log[i - 1].prompted /\ log[i - 1].response # <<"a">>))
        /\ (log[i].prompted /\ log[i].response \in Accepting) =>
              log[i].outcome \in Attempted
        /\ (log[i].prompted /\ log[i].response \notin Accepting) =>
              /\ log[i].outcome = "rejected"
              /\ renames[i].old_path \in DOMAIN fs
              /\ fs[renames[i].old_path] = fs0[renames[i].old_path]
        /\ ~log[i].prompted => log[i].outcome \in Attempted

\* C6 happens: the first entry was rejected, the second answered 'a' and the
\* third was renamed without a prompt.
C6_Witness ==
    /\ Len(log) = 3
    /\ log[1].prompted /\ log[1].outcome = "rejected"
    /\ log[2].prompted /\ log[2].response = <<"a">> /\ log[2].outcome \in Attempted
    /\ ~log[3].prompted /\ log[3].outcome = "renamed"

RECURSIVE run_apply(_, _, _, _, _, _)
\* The counts apply_renames ends with when the answers are `answers` and no
\* rename fails, together with the numbers of rejections and collisions
run_apply(files, plan, i, confirm, answers, acc) ==
    IF i > Len(plan) THEN acc
    ELSE run_apply(
             next_files(files, plan[i],
                        apply_outcome(files, plan[i], confirm,
                                      read_response(confirm, answers[i]), FALSE)),
             plan, i + 1,
             next_confirm_each(confirm, read_response(confirm, answers[i])),
             answers,
             [applied |-> next_applied(acc.applied,
                              apply_outcome(files, plan[i], confirm,
                                            read_response(confirm, answers[i]), FALSE)),
              skipped |-> next_skipped(acc.skipped,
                              apply_outcome(files, plan[i], confirm,
                                            read_response(confirm, answers[i]), FALSE)),
              rejected |-> acc.rejected +
                  (IF apply_outcome(files, plan[i], confirm,
                                    read_response(confirm, answers[i]), FALSE) = "rejected"
                   THEN 1 ELSE 0),
              collisions |-> acc.collisions +
                  (IF apply_outcome(files, plan[i], confirm,
                                    read_response(confirm, answers[i]), FALSE) = "collision"
                   THEN 1 ELSE 0)])

RunFromHere(answers) ==
    run_apply(fs, renames, 1, confirm_each, answers,
              [applied |-> 0, skipped |-> 0, rejected |-> 0, collisions |-> 0])

\* C7: the result of apply_renames lets the number of user rejections be
\* told from the number of collisions: two runs over the same plan that
\* return the same (applied, skipped) have the same number of rejections and
\* the same number of collisions.
C7_RejectionsToldFromCollisions ==
    (pc = "apply" /\ idx = 1) =>
        \A a1, a2 \in [DOMAIN renames -> Responses] :
            (/\ RunFromHere(a1).applied = RunFromHere(a2).applied
             /\ RunFromHere(a1).skipped = RunFromHere(a2).skipped)
            => /\ RunFromHere(a1).rejected = RunFromHere(a2).rejected
               /\ RunFromHere(a1).collisions = RunFromHere(a2).collisions

\* C9: when --apply is not given the directory ends as it started, and the
\* directory is unchanged as long as apply_renames has processed no entry.
C9_OnlyApplyRenames ==
    (~args.apply \/ log = <<>>) => fs = fs0

\* C9 happens: a run without --apply, with --auto-yes, ended after planning
\* two renames.
C9_Witness ==
    /\ pc = "exit"
    /\ isdir
    /\ ~args.apply
    /\ args.auto_yes
    /\ Len(renames) >= 2
    /\ fs = fs0

(***************************************************************************)
(* Properties of the list generator (checked under SpecGen)                *)
(***************************************************************************)
\* C8: with --validate the written track list holds no record of a file whose
\* name is not well-formed.
C8_ValidateOnlyWellFormed ==
    (gargs.validate /\ output # <<>>) =>
        \A i \in DOMAIN output[1].rows :
            parse_filename(Basename(output[1].rows[i].path)).valid_format

(***************************************************************************)
(* Properties of the repair engine (checked under Spec)                    *)
(***************************************************************************)
\* The input is a stem of 4 or more segments that is_correct_format rejects
LongAndMalformed ==
    /\ NSegs >= 4
    /\ ~is_correct_format(filename)

\* Key and BPM as the claims state them: the whole-string search result when
\* there is one, the caller's default otherwise
KeyFoundOrDefault ==
    IF SearchKey(Stem).found THEN SearchKey(Stem).group ELSE suggested.default_key

BpmFoundOrDefault ==
    IF SearchBpm(Stem).found THEN SearchBpm(Stem).group ELSE suggested.default_bpm

\* The suggested name ends with " - {key} - {bpm}{ext}", key and BPM being
\* the search results or the defaults
SuggestedSuffix == Delim \o KeyFoundOrDefault \o Delim \o BpmFoundOrDefault \o ext

\* C11: for every malformed stem of 4 or more segments suggest_rename takes
\* the first segment as artist, the segments strictly between the artist and
\* the trailing two (rejoined with " - ") as title, and key and BPM from the
\* whole-string search or else from the defaults.
C11_TitleExcludesTrailingTwo ==
    (op = "suggest_rename" /\ LongAndMalformed) =>
        Basename(suggested.new_path) =
            Strip(CollapseWhitespace(segs[1])) \o Delim
            \o Strip(CollapseWhitespace(Join(SubSeq(segs, 2, NSegs - 2), Delim)))
            \o SuggestedSuffix

\* The title inside the suggested name of a 2- or 3-segment input: what stands
\* between "{artist} - " and " - {key} - {bpm}{ext}"
SuggestedTitle ==
    SubSeq(Basename(suggested.new_path),
           Len(Strip(CollapseWhitespace(segs[1]))) + Len(Delim) + 1,
           Len(Basename(suggested.new_path)) - Len(SuggestedSuffix))

\* A segment that is key-shaped or a bare 2-3 digit number
IsTokenSegment(part) == MatchKey(Strip(part)) \/ MatchBareNumber(Strip(part))

\* C12: for every stem of 2 or 3 segments the title of the suggested name
\* holds no segment that is itself key-shaped or a bare 2-3 digit number.
C12_TitleHoldsNoTokenSegment ==
    (op = "suggest_rename" /\ NSegs \in {2, 3}) =>
        \A i \in DOMAIN Split(SuggestedTitle, Delim) :
            ~IsTokenSegment(Split(SuggestedTitle, Delim)[i])

\* The input has 4 or more segments and its last two are a valid key and a
\* valid BPM
TrailingKeyAndBpm ==
    /\ NSegs >= 4
    /\ MatchKey(Strip(segs[NSegs - 1]))
    /\ BpmValid(Strip(segs[NSegs]))

\* C13: for every filename of 4 or more segments whose last two are a valid
\* key and a valid BPM, analyze_filename_pattern returns no issue and no
\* suggestion, and process_directory does not put the file in the plan.
C13_TrueNegative ==
    /\ (op = "analyze_filename_pattern" /\ TrailingKeyAndBpm) =>
           (analysis.issues = <<>> /\ analysis.suggestions = <<>>)
    /\ (op = "process_directory" /\ TrailingKeyAndBpm) => renames = <<>>

\* C13 happens: process_directory scanned an audio file of five segments, the
\* title holding the delimiter and a whitespace run, and planned nothing.
C13_Witness ==
    /\ op = "process_directory"
    /\ TrailingKeyAndBpm
    /\ NSegs = 5
    /\ segs[2] = <<"a", " ", " ", "b">>
    /\ IsAudioFile(filename)
    /\ renames = <<>>

\* C14: a stem of one segment is not well-formed and gets the issue of the
\* missing artist-title separation; a stem of 2 segments gets the issue naming
\* exactly which of key and BPM the whole-string search did not find; a stem
\* of 3 segments gets "Missing BPM" or "Missing key", naming a search that
\* failed, and the issue of the wrong number of segments when both tokens
\* were found.
C14_DiagnosisBySegmentCount ==
    op = "analyze_filename_pattern" =>
        /\ NSegs = 1 =>
              /\ ~is_correct_format(filename)
              /\ analysis.issues = <<"Missing artist-title separation">>
        /\ (NSegs = 2 /\ ~SearchKey(Stem).found /\ ~SearchBpm(Stem).found) =>
              analysis.issues = <<"Missing key and BPM">>
        /\ (NSegs \in {2, 3} /\ SearchKey(Stem).found /\ ~SearchBpm(Stem).found) =>
              analysis.issues = <<"Missing BPM">>
        /\ (NSegs \in {2, 3} /\ ~SearchKey(Stem).found /\ SearchBpm(Stem).found) =>
              analysis.issues = <<"Missing key">>
        /\ (NSegs = 3 /\ ~SearchKey(Stem).found /\ ~SearchBpm(Stem).found) =>
              analysis.issues \in {<<"Missing BPM">>, <<"Missing key">>}
        /\ (NSegs = 3 /\ SearchKey(Stem).found /\ SearchBpm(Stem).found) =>
              analysis.issues = <<"Has key and BPM but wrong number of segments">>

\* C14 happens: a stem of 3 segments in which both tokens are found, the key
\* inside a hyphenated word, was diagnosed with the wrong number of segments.
C14_Witness ==
    /\ op = "analyze_filename_pattern"
    /\ NSegs = 3
    /\ segs[1] = <<"a", "-", "8", "A", "-", "1", "2">>
    /\ segs[3] = <<"a">>
    /\ analysis.key_match.found
    /\ analysis.bpm_match.found
    /\ analysis.issues = <<"Has key and BPM but wrong number of segments">>

(***************************************************************************)
(* The two tools compared (checked under Spec)                             *)
(***************************************************************************)
\* C15: for every filename, valid_format of the list generator's
\* parse_filename equals is_correct_format of the fixer.
C15_SameClassification ==
    op = "parse_filename" => parsed.valid_format = is_correct_format(filename)

\* C16: every entry of the plan of process_directory carries a diagnosis: a
\* file that is_correct_format rejects has a non-empty list of issues.
C16_PlanEntriesHaveIssues ==
    op = "process_directory" =>
        \A i \in DOMAIN renames : renames[i].issues # <<>>

====
